---- MODULE Spec2Model ----
(***************************************************************************)
(* k-mer analysis (src/src/main.rs): sliding-window k-mer extraction,      *)
(* frequency counting, De Bruijn-style adjacency construction, graph       *)
(* materialisation, and the control flow of main() around them.            *)
(*                                                                         *)
(* A Rust String is modelled as a sequence of one-character strings, so    *)
(* "ACG" is <<"A","C","G">> and the empty String is <<>>.  A HashMap is a  *)
(* function whose DOMAIN is its key set; its iteration order is an input   *)
(* of whoever iterates it.  An Option / not-yet-bound local is <<>> (None) *)
(* or <<v>> (Some(v)).                                                     *)
(***************************************************************************)
EXTENDS Integers, Sequences, FiniteSets, TLC

\* ------------------------------------------------------------------ bounds
\* longest DNA sequence the length prompt may ask for
MaxLen == 3
\* UnitSpec: longest k-mer list handed to DeBruijnGraph::new directly
MaxKmers == 4
\* UnitSpec: largest k of the k-mers handed to DeBruijnGraph::new directly
MaxK == 2

\* ------------------------------------------------------------- primitives
None == <<>>
Some(v) == <<v>>
IsSome(o) == o # <<>>
Get(o) == o[1]

\* a call's outcome: a value, or a panic with its message
Ok(v) == [panicked |-> FALSE, val |-> <<v>>, msg |-> ""]
Panic(m) == [panicked |-> TRUE, val |-> <<>>, msg |-> m]

\* usize::MAX, narrowed to the widest integer TLC holds (the code's is
\* 2^64 - 1); it is only ever the value a wrapped subtraction lands next to
UsizeMax == 2147483647

\* `a - b` on usize: with overflow checks (debug profile) an underflow
\* panics; without them (release profile) it wraps modulo UsizeMax + 1
usize_sub(a, b, overflow_checks) ==
    IF a >= b THEN Ok(a - b)
    ELSE IF overflow_checks THEN Panic("attempt to subtract with overflow")
    ELSE Ok(UsizeMax - (b - a) + 1)

\* the four bases of generate_random_dna_sequence
bases == <<"A", "C", "G", "T">>

Range(s) == {s[i] : i \in DOMAIN s}

\* all sequences over S of length exactly n / at most n
RECURSIVE SeqsOfLen(_, _)
SeqsOfLen(S, n) ==
    IF n = 0 THEN {<<>>}
    ELSE {Append(s, c) : s \in SeqsOfLen(S, n - 1), c \in S}

SeqsUpTo(S, n) == UNION {SeqsOfLen(S, m) : m \in 0..n}

\* `&s[i..j]` (0-based, end-exclusive): panics when out of range
str_slice(s, i, j) ==
    IF i > j \/ j > Len(s) THEN Panic("byte index out of range")
    ELSE Ok(SubSeq(s, i + 1, j))

\* ---------------------------------------------------------- generate_kmers
\* faulty variant: the window is sliced as [i..k], its end not moving with i
RECURSIVE kmers_loop_fixed_end(_, _, _, _, _)
kmers_loop_fixed_end(dna_sequence, k, i, upper, acc) ==
    IF i > upper THEN Ok(acc)
    ELSE LET sl == str_slice(dna_sequence, i, k)
         IN  IF sl.panicked THEN sl
             ELSE kmers_loop_fixed_end(dna_sequence, k, i + 1, upper,
                                       Append(acc, Get(sl.val)))

\* the body of `for i in 0..=upper`, from index i on
RECURSIVE kmers_loop(_, _, _, _, _)
kmers_loop(dna_sequence, k, i, upper, acc) ==
    IF i > upper THEN Ok(acc)
    ELSE LET sl == str_slice(dna_sequence, i, i + k)
         IN  IF sl.panicked THEN sl
             ELSE kmers_loop(dna_sequence, k, i + 1, upper, Append(acc, Get(sl.val)))

\* faulty variant: `0..len - k`, the end-exclusive range
generate_kmers_exclusive(dna_sequence, k, overflow_checks) ==
    LET d == usize_sub(Len(dna_sequence), k, overflow_checks)
    IN  IF d.panicked THEN d
        ELSE kmers_loop(dna_sequence, k, 0, Get(d.val) - 1, <<>>)

\* `for i in 0..=dna_sequence.len() - k`
generate_kmers(dna_sequence, k, overflow_checks) ==
    LET d == usize_sub(Len(dna_sequence), k, overflow_checks)
    IN  IF d.panicked THEN d
        ELSE kmers_loop(dna_sequence, k, 0, Get(d.val), <<>>)

\* ------------------------------------------------------------- count_kmers
\* faulty variant: a repeated key overwrites its entry instead of incrementing it
entry_add_one_reset(m, key) ==
    IF key \in DOMAIN m THEN [m EXCEPT ![key] = 1]
    ELSE m @@ (key :> 1)

\* `*m.entry(key).or_insert(0) += 1`
entry_add_one(m, key) ==
    IF key \in DOMAIN m THEN [m EXCEPT ![key] = @ + 1]
    ELSE m @@ (key :> 0 + 1)

RECURSIVE count_loop(_, _)
count_loop(kmers, kmer_counts) ==
    IF kmers = <<>> THEN kmer_counts
    ELSE count_loop(Tail(kmers), entry_add_one(kmer_counts, Head(kmers)))

EmptyMap == [x \in {} |-> 0]

count_kmers(kmers) == count_loop(kmers, EmptyMap)

\* ------------------------------------------------------ DeBruijnGraph::new
\* `kmer.split_at(mid)`: panics when mid > len
split_at(s, mid) ==
    IF mid > Len(s) THEN Panic("mid > len")
    ELSE Ok(<<SubSeq(s, 1, mid), SubSeq(s, mid + 1, Len(s))>>)

\* faulty variant: a label already in the node's list is not appended again
entry_push_dedup(edges, node, next) ==
    IF node \in DOMAIN edges
    THEN IF next \in Range(edges[node]) THEN edges
         ELSE [edges EXCEPT ![node] = Append(@, next)]
    ELSE edges @@ (node :> <<next>>)

\* faulty variant: the node's list is replaced (`edges.insert(node, vec![next])`)
entry_push_overwrite(edges, node, next) ==
    IF node \in DOMAIN edges THEN [edges EXCEPT ![node] = <<next>>]
    ELSE edges @@ (node :> <<next>>)

\* `edges.entry(node).or_insert_with(Vec::new).push(next)`
entry_push(edges, node, next) ==
    IF node \in DOMAIN edges THEN [edges EXCEPT ![node] = Append(@, next)]
    ELSE edges @@ (node :> <<next>>)

RECURSIVE dbg_loop(_, _, _)
dbg_loop(kmers, edges, overflow_checks) ==
    IF kmers = <<>> THEN Ok(edges)
    ELSE LET kmer == Head(kmers)
             mid == usize_sub(Len(kmer), 1, overflow_checks)
         IN  IF mid.panicked THEN mid
             ELSE LET sp == split_at(kmer, Get(mid.val))
                  IN  IF sp.panicked THEN sp
                      ELSE dbg_loop(Tail(kmers),
                                    entry_push(edges, Get(sp.val)[1], Get(sp.val)[2]),
                                    overflow_checks)

DeBruijnGraph_new(kmers, overflow_checks) == dbg_loop(kmers, EmptyMap, overflow_checks)

\* --------------------------------------------------------- create_petgraph
\* UnGraph<String, ()>: `nodes` are the node weights in NodeIndex order
\* (NodeIndex i is nodes[i + 1]); `edges` are <<source, target>> NodeIndex
\* pairs in EdgeIndex order
EmptyGraph == [nodes |-> <<>>, edges |-> <<>>]

\* `*index_map.entry(key.clone()).or_insert_with(|| graph.add_node(key.clone()))`
entry_node(st, key) ==
    IF key \in DOMAIN st.index_map THEN [st EXCEPT !.ix = st.index_map[key]]
    ELSE [graph |-> [st.graph EXCEPT !.nodes = Append(@, key)],
          index_map |-> st.index_map @@ (key :> Len(st.graph.nodes)),
          ix |-> Len(st.graph.nodes)]

\* faulty variant: an edge is added only when its label is new to the index map
add_edge_if_new_label(st, node_index, edge) ==
    LET seen == edge \in DOMAIN st.index_map
        st1 == entry_node(st, edge)
    IN  IF seen THEN st1
        ELSE [st1 EXCEPT !.graph.edges = Append(@, <<node_index, st1.ix>>)]

\* the body of `for edge in edges`
add_edge_for(st, node_index, edge) ==
    LET st1 == entry_node(st, edge)
    IN  [st1 EXCEPT !.graph.edges = Append(@, <<node_index, st1.ix>>)]

RECURSIVE petgraph_inner(_, _, _)
petgraph_inner(st, node_index, edges) ==
    IF edges = <<>> THEN st
    ELSE petgraph_inner(add_edge_for(st, node_index, Head(edges)), node_index, Tail(edges))

\* `for (node, edges) in &de_bruijn_graph.edges`, visiting the keys in `order`
RECURSIVE petgraph_outer(_, _, _)
petgraph_outer(st, dbg_edges, order) ==
    IF order = <<>> THEN st
    ELSE LET node == Head(order)
             st1 == entry_node(st, node)
         IN  petgraph_outer(petgraph_inner(st1, st1.ix, dbg_edges[node]),
                            dbg_edges, Tail(order))

\* the orders a HashMap with key set S may be iterated in
IterationOrders(S) ==
    {o \in SeqsOfLen(S, Cardinality(S)) : Range(o) = S}

create_petgraph(dbg_edges, order) ==
    petgraph_outer([graph |-> EmptyGraph, index_map |-> EmptyMap, ix |-> 0],
                   dbg_edges, order).graph

\* ------------------------------------------------- str::trim, str::parse
Whitespace == {" ", "\t", "\n", "\r"}

RECURSIVE trim_start(_)
trim_start(s) ==
    IF s # <<>> /\ Head(s) \in Whitespace THEN trim_start(Tail(s)) ELSE s

RECURSIVE trim_end(_)
trim_end(s) ==
    IF s # <<>> /\ s[Len(s)] \in Whitespace
    THEN trim_end(SubSeq(s, 1, Len(s) - 1)) ELSE s

trim(s) == trim_end(trim_start(s))

DigitChars == <<"0", "1", "2", "3", "4", "5", "6", "7", "8", "9">>

DigitValue(c) == CHOOSE d \in 0..9 : DigitChars[d + 1] = c

RECURSIVE digits_value(_, _)
digits_value(ds, acc) ==
    IF ds = <<>> THEN acc
    ELSE digits_value(Tail(ds), acc * 10 + DigitValue(Head(ds)))

\* `s.parse::<usize>()`: Some(n), or None for Err(ParseIntError).  An
\* unsigned parse takes an optional leading '+', then one or more decimal
\* digits, and nothing else (a digit string beyond usize::MAX is an Err as
\* well; the input lines below are too short to reach it).
parse_usize(s) ==
    LET ds == IF s # <<>> /\ Head(s) = "+" THEN Tail(s) ELSE s
    IN  IF ds = <<>> THEN None
        ELSE IF \E i \in DOMAIN ds : ds[i] \notin Range(DigitChars) THEN None
        ELSE Some(digits_value(ds, 0))

\* faulty variant: what does not parse counts as 0 (`unwrap_or(0)`)
parse_prompt_lenient(line) ==
    LET r == parse_usize(trim(line))
    IN  IF IsSome(r) THEN Ok(Get(r)) ELSE Ok(0)

\* `line.trim().parse().expect("Please type a number!")`
parse_prompt(line) ==
    LET r == parse_usize(trim(line))
    IN  IF IsSome(r) THEN Ok(Get(r)) ELSE Panic("Please type a number!")

\* ------------------------------------------------------------------ inputs
\* what one read_line can put in the buffer: one-digit numbers up to
\* MaxLen + 1, and a fixed set of other lines (end of input is <<>>)
NumberLines == {<<DigitChars[d + 1], "\n">> : d \in 0..(MaxLen + 1)}

OtherLines ==
    { <<>>, <<"\n">>, <<"x", "\n">>, <<"-", "1", "\n">>, <<"+", "1", "\n">>,
      <<" ", "2", " ", "\n">>, <<"1", ".", "5", "\n">>, <<"1", "2", "\n">> }

Lines == NumberLines \cup OtherLines

\* the four export artifacts of main
Exports == {"kmer_histogram.png", "de_bruijn_graph.dot", "kmer_counts.csv",
            "de_bruijn_graph.csv"}

\* a sequence file an earlier run may have left behind
StaleFiles == {<<"T", "T">>}

StrictPrefixes(s) == {SubSeq(s, 1, n) : n \in 0..(Len(s) - 1)}

\* plot_kmer_histogram: `fill(..)?`, then `values().max().unwrap()`, then the
\* chart: build, mesh, series, `present()?`.  Ok(TRUE) is Ok(()), Ok(FALSE)
\* is an Err returned to main.
plot_kmer_histogram(kmer_counts, fill_ok, chart_ok) ==
    IF ~fill_ok THEN Ok(FALSE)
    ELSE IF DOMAIN kmer_counts = {} THEN Panic("called Option::unwrap() on a None value")
    ELSE Ok(chart_ok)

\* ------------------------------------------------------------------- state
VARIABLES
    pc,               \* where main is
    overflow_checks,  \* the build profile: TRUE debug, FALSE release
    file,             \* random_dna_sequence.txt: None (absent) or Some(content)
    dna_length_str,   \* the buffer of the first read_line
    dna_length,
    dna_sequence,     \* the generated, then (shadowing it) the re-read sequence
    k_str,            \* the buffer of the second read_line
    k,
    kmers,
    kmer_counts,
    dbg,              \* DeBruijnGraph.edges
    graph,            \* the petgraph UnGraph
    attempted,        \* export artifacts whose writer has been called
    stderr,           \* what main has reported with eprintln!
    panic_msg         \* the message the process died with, "" if it has not

vars == <<pc, overflow_checks, file, dna_length_str, dna_length, dna_sequence,
          k_str, k, kmers, kmer_counts, dbg, graph, attempted, stderr, panic_msg>>

locals == <<dna_length_str, dna_length, dna_sequence, k_str, k, kmers,
            kmer_counts, dbg, graph>>

Unbound ==
    /\ dna_length_str = None /\ dna_length = None /\ dna_sequence = None
    /\ k_str = None /\ k = None /\ kmers = None /\ kmer_counts = None
    /\ dbg = None /\ graph = None
    /\ attempted = {} /\ stderr = {} /\ panic_msg = ""

Init ==
    /\ pc = "prompt_length"
    /\ overflow_checks \in BOOLEAN
    /\ file \in {None} \cup {Some(f) : f \in StaleFiles}
    /\ Unbound

\* main, lines 208-211: the length prompt
ReadLength ==
    /\ pc = "prompt_length"
    /\ \/ \E line \in Lines :
            LET r == parse_prompt(line)
            IN  /\ dna_length_str' = Some(line)
                /\ IF r.panicked
                   THEN /\ pc' = "panicked"
                        /\ panic_msg' = r.msg
                        /\ dna_length' = dna_length
                   ELSE /\ Get(r.val) <= MaxLen
                        /\ pc' = "generate"
                        /\ panic_msg' = panic_msg
                        /\ dna_length' = r.val
       \/ /\ pc' = "panicked"
          /\ panic_msg' = "Failed to read line"
          /\ UNCHANGED <<dna_length_str, dna_length>>
    /\ UNCHANGED <<overflow_checks, file, dna_sequence, k_str, k, kmers,
                   kmer_counts, dbg, graph, attempted, stderr>>

\* generate_random_dna_sequence: any string of `length` bases
generate_random_dna_sequence(length) == SeqsOfLen(Range(bases), length)

\* main, line 214
GenerateSequence ==
    /\ pc = "generate"
    /\ \E s \in generate_random_dna_sequence(Get(dna_length)) :
            dna_sequence' = Some(s)
    /\ pc' = "write"
    /\ UNCHANGED <<overflow_checks, file, dna_length_str, dna_length, k_str, k,
                   kmers, kmer_counts, dbg, graph, attempted, stderr, panic_msg>>

\* write_to_file: the file after the call and whether it returned Ok.
\* File::create may fail (file untouched); write_all may fail after the
\* file was truncated (a strict prefix of the contents is left).
write_to_file(contents, old_file) ==
    {[ok |-> TRUE, file |-> Some(contents)], [ok |-> FALSE, file |-> old_file]}
    \cup {[ok |-> FALSE, file |-> Some(p)] : p \in StrictPrefixes(contents)}

\* main, lines 215-218
WriteSequence ==
    /\ pc = "write"
    /\ \E w \in write_to_file(Get(dna_sequence), file) :
            /\ file' = w.file
            /\ stderr' = IF w.ok THEN stderr
                         ELSE stderr \cup {"random_dna_sequence.txt: write"}
    /\ pc' = "read"
    /\ UNCHANGED <<overflow_checks, locals, attempted, panic_msg>>

\* main, lines 221-227: read the file back, return on failure
ReadSequence ==
    /\ pc = "read"
    /\ \/ /\ IsSome(file)
          /\ dna_sequence' = file
          /\ pc' = "prompt_k"
          /\ stderr' = stderr
       \/ /\ pc' = "returned"
          /\ stderr' = stderr \cup {"random_dna_sequence.txt: read"}
          /\ dna_sequence' = dna_sequence
    /\ UNCHANGED <<overflow_checks, file, dna_length_str, dna_length, k_str, k,
                   kmers, kmer_counts, dbg, graph, attempted, panic_msg>>

\* main, lines 230-233: the k prompt
ReadK ==
    /\ pc = "prompt_k"
    /\ \/ \E line \in Lines :
            LET r == parse_prompt(line)
            IN  /\ k_str' = Some(line)
                /\ IF r.panicked
                   THEN /\ pc' = "panicked"
                        /\ panic_msg' = r.msg
                        /\ k' = k
                   ELSE /\ pc' = "generate_kmers"
                        /\ panic_msg' = panic_msg
                        /\ k' = r.val
       \/ /\ pc' = "panicked"
          /\ panic_msg' = "Failed to read line"
          /\ UNCHANGED <<k_str, k>>
    /\ UNCHANGED <<overflow_checks, file, dna_length_str, dna_length,
                   dna_sequence, kmers, kmer_counts, dbg, graph, attempted, stderr>>

\* main, line 236
GenerateKmers ==
    /\ pc = "generate_kmers"
    /\ LET r == generate_kmers(Get(dna_sequence), Get(k), overflow_checks)
       IN  IF r.panicked
           THEN /\ pc' = "panicked" /\ panic_msg' = r.msg /\ kmers' = kmers
           ELSE /\ pc' = "count" /\ panic_msg' = panic_msg /\ kmers' = r.val
    /\ UNCHANGED <<overflow_checks, file, dna_length_str, dna_length,
                   dna_sequence, k_str, k, kmer_counts, dbg, graph, attempted, stderr>>

\* main, line 239
CountKmers ==
    /\ pc = "count"
    /\ kmer_counts' = Some(count_kmers(Get(kmers)))
    /\ pc' = "plot"
    /\ UNCHANGED <<overflow_checks, file, dna_length_str, dna_length,
                   dna_sequence, k_str, k, kmers, dbg, graph, attempted, stderr,
                   panic_msg>>

\* an export call that returned `ok`: main reports an Err and goes on
Report(artifact, ok) == IF ok THEN stderr ELSE stderr \cup {artifact}

\* main, lines 242-245
PlotHistogram ==
    /\ pc = "plot"
    /\ attempted' = attempted \cup {"kmer_histogram.png"}
    /\ \E fill_ok, chart_ok \in BOOLEAN :
            LET r == plot_kmer_histogram(Get(kmer_counts), fill_ok, chart_ok)
            IN  IF r.panicked
                THEN /\ pc' = "panicked" /\ panic_msg' = r.msg /\ stderr' = stderr
                ELSE /\ pc' = "display_counts"
                     /\ panic_msg' = panic_msg
                     /\ stderr' = Report("kmer_histogram.png", Get(r.val))
    /\ UNCHANGED <<overflow_checks, file, locals>>

\* main, lines 247-249
DisplayCounts ==
    /\ pc = "display_counts"
    /\ pc' = "build_graph"
    /\ UNCHANGED <<overflow_checks, file, locals, attempted, stderr, panic_msg>>

\* main, line 252
BuildGraph ==
    /\ pc = "build_graph"
    /\ LET r == DeBruijnGraph_new(Get(kmers), overflow_checks)
       IN  IF r.panicked
           THEN /\ pc' = "panicked" /\ panic_msg' = r.msg /\ dbg' = dbg
           ELSE /\ pc' = "display_graph" /\ panic_msg' = panic_msg /\ dbg' = r.val
    /\ UNCHANGED <<overflow_checks, file, dna_length_str, dna_length,
                   dna_sequence, k_str, k, kmers, kmer_counts, graph, attempted,
                   stderr>>

\* main, line 255
DisplayGraph ==
    /\ pc = "display_graph"
    /\ pc' = "create_petgraph"
    /\ UNCHANGED <<overflow_checks, file, locals, attempted, stderr, panic_msg>>

\* main, line 257
CreatePetgraph ==
    /\ pc = "create_petgraph"
    /\ \E order \in IterationOrders(DOMAIN Get(dbg)) :
            graph' = Some(create_petgraph(Get(dbg), order))
    /\ pc' = "save_dot"
    /\ UNCHANGED <<overflow_checks, file, dna_length_str, dna_length,
                   dna_sequence, k_str, k, kmers, kmer_counts, dbg, attempted,
                   stderr, panic_msg>>

\* main, lines 260-262
SaveDot ==
    /\ pc = "save_dot"
    /\ attempted' = attempted \cup {"de_bruijn_graph.dot"}
    /\ \E ok \in BOOLEAN : stderr' = Report("de_bruijn_graph.dot", ok)
    /\ pc' = "counts_csv"
    /\ UNCHANGED <<overflow_checks, file, locals, panic_msg>>

\* main, lines 264-267
WriteCountsCsv ==
    /\ pc = "counts_csv"
    /\ attempted' = attempted \cup {"kmer_counts.csv"}
    /\ \E ok \in BOOLEAN : stderr' = Report("kmer_counts.csv", ok)
    /\ pc' = "graph_csv"
    /\ UNCHANGED <<overflow_checks, file, locals, panic_msg>>

\* main, lines 268-271
WriteGraphCsv ==
    /\ pc = "graph_csv"
    /\ attempted' = attempted \cup {"de_bruijn_graph.csv"}
    /\ \E ok \in BOOLEAN : stderr' = Report("de_bruijn_graph.csv", ok)
    /\ pc' = "done"
    /\ UNCHANGED <<overflow_checks, file, locals, panic_msg>>

Next ==
    \/ ReadLength
    \/ GenerateSequence
    \/ WriteSequence
    \/ ReadSequence
    \/ ReadK
    \/ GenerateKmers
    \/ CountKmers
    \/ PlotHistogram
    \/ DisplayCounts
    \/ BuildGraph
    \/ DisplayGraph
    \/ CreatePetgraph
    \/ SaveDot
    \/ WriteCountsCsv
    \/ WriteGraphCsv

Spec == Init /\ [][Next]_vars

\* -------------------------------------------------- DeBruijnGraph::new and
\* create_petgraph on any list of k-mers, not only a sliding window's
UnitBases == {"A", "C"}

UnitKmerLists ==
    UNION {SeqsUpTo(SeqsOfLen(UnitBases, kk), MaxKmers) : kk \in 1..MaxK}

UnitInit ==
    /\ pc = "build_graph"
    /\ overflow_checks \in BOOLEAN
    /\ file = None
    /\ dna_length_str = None /\ dna_length = None /\ dna_sequence = None
    /\ k_str = None /\ k = None /\ kmer_counts = None
    /\ dbg = None /\ graph = None
    /\ attempted = {} /\ stderr = {} /\ panic_msg = ""
    /\ \E l \in UnitKmerLists : kmers = Some(l)

UnitNext == BuildGraph \/ DisplayGraph \/ CreatePetgraph

UnitSpec == UnitInit /\ [][UnitNext]_vars

\* =================================================================== claims
n == Len(Get(dna_sequence))

\* k has been read and is a valid window size for the sequence read back
ValidWindow == IsSome(k) /\ Get(k) >= 1 /\ Get(k) <= n

\* k has been read and is 0 or longer than the sequence read back
InvalidWindow == IsSome(k) /\ (Get(k) = 0 \/ Get(k) > n)

\* generate_kmers has been called (k is bound from the k prompt on)
Extracted == IsSome(k) /\ pc # "generate_kmers"

\* the sum of f over the keys S of f
RECURSIVE SumOver(_, _)
SumOver(S, f) ==
    IF S = {} THEN 0
    ELSE LET x == CHOOSE y \in S : TRUE
         IN  f[x] + SumOver(S \ {x}, f)

SumCounts(m) == SumOver(DOMAIN m, m)

SumLens(m) == SumOver(DOMAIN m, [p \in DOMAIN m |-> Len(m[p])])

Occurrences(s, x) == Cardinality({i \in DOMAIN s : s[i] = x})

\* C1: for 1 <= k <= n, generate_kmers returns exactly n - k + 1 k-mers, the
\* one at (0-based) index i being sequence[i .. i+k]: each has length k, and
\* k-mer i without its first character is k-mer i+1 without its last.
C1_SlidingWindow ==
    (ValidWindow /\ Extracted) =>
        /\ IsSome(kmers)
        /\ Len(Get(kmers)) = n - Get(k) + 1
        /\ \A i \in 1..Len(Get(kmers)) :
              /\ Get(kmers)[i] = SubSeq(Get(dna_sequence), i, i + Get(k) - 1)
              /\ Len(Get(kmers)[i]) = Get(k)
        /\ \A i \in 1..(Len(Get(kmers)) - 1) :
              Tail(Get(kmers)[i]) = SubSeq(Get(kmers)[i + 1], 1, Get(k) - 1)

C1_Witness ==
    /\ ValidWindow /\ IsSome(kmers)
    /\ Get(k) >= 2 /\ Len(Get(kmers)) >= 2
    /\ Get(kmers)[1] # Get(kmers)[2]

\* C2: extraction with k = 0 or k > n (the empty sequence with k >= 1
\* included) fails without a panic and without returning a k-mer list.
C2_InvalidWindowIsAnError ==
    (InvalidWindow /\ Extracted) => (panic_msg = "" /\ kmers = None)

\* C3: with k = 0 or k > n the pipeline short-circuits: no FrequencyMap, no
\* AdjacencyGraph, and no step consuming them (count display, histogram,
\* DOT/CSV export) is reached.
C3_InvalidWindowShortCircuits ==
    InvalidWindow =>
        /\ kmer_counts = None /\ dbg = None /\ graph = None
        /\ attempted = {}
        /\ pc \notin {"build_graph", "display_graph", "create_petgraph"}

\* the first k-1 characters and the last character of a k-mer
NodeKey(kmer) == SubSeq(kmer, 1, Len(kmer) - 1)
Label(kmer) == SubSeq(kmer, Len(kmer), Len(kmer))

\* the labels of the k-mers whose node key is p, in k-mer order
RECURSIVE LabelsOf(_, _)
LabelsOf(ks, p) ==
    IF ks = <<>> THEN <<>>
    ELSE IF NodeKey(Head(ks)) = p THEN <<Label(Head(ks))>> \o LabelsOf(Tail(ks), p)
    ELSE LabelsOf(Tail(ks), p)

C5_CountsSum ==
    (ValidWindow /\ IsSome(kmer_counts)) =>
        SumCounts(Get(kmer_counts)) = n - Get(k) + 1

C5_Witness ==
    /\ ValidWindow /\ IsSome(kmer_counts)
    /\ Cardinality(DOMAIN Get(kmer_counts)) >= 2
    /\ \E key \in DOMAIN Get(kmer_counts) : Get(kmer_counts)[key] >= 2

\* C6: for 1 <= k <= n the adjacency lists built from the extracted k-mers
\* have lengths summing to n - k + 1.
C6_AdjacencyLengthsSum ==
    (ValidWindow /\ IsSome(dbg)) => SumLens(Get(dbg)) = n - Get(k) + 1

C6_Witness ==
    /\ ValidWindow /\ IsSome(dbg)
    /\ Get(k) >= 2
    /\ \E p \in DOMAIN Get(dbg) :
          Len(Get(dbg)[p]) >= 2 /\ Get(dbg)[p][1] = Get(dbg)[p][2]

\* C7: in a run that reaches the export stage, an export's I/O failure is
\* reported and each of the other exports is still attempted: a run in which
\* an export failed does not end before all four artifacts were attempted.
C7_AllExportsAttempted ==
    (pc \in {"done", "panicked", "returned"} /\ stderr \cap Exports # {})
        => attempted = Exports

\* an integer in text: blanks, an optional sign, one or more digits, blanks
IsIntegerText(line) ==
    \E a \in 0..Len(line) : \E b \in a..Len(line) :
        /\ \A i \in 1..a : line[i] \in Whitespace
        /\ \A i \in (b + 1)..Len(line) : line[i] \in Whitespace
        /\ LET body == SubSeq(line, a + 1, b)
               ds == IF body # <<>> /\ Head(body) \in {"+", "-"}
                     THEN Tail(body) ELSE body
           IN  /\ ds # <<>>
               /\ \A i \in DOMAIN ds : ds[i] \in Range(DigitChars)

\* C8: a non-integer answer to either prompt is fatal: the step that reads
\* it ends the run there, having run nothing else (length prompt: nothing
\* generated or written; k prompt: no extraction, count, graph or export),
\* and a run that has ended takes no further step (no re-prompt).
C8_NonIntegerIsFatal ==
    [][ /\ (pc = "prompt_length" /\ IsSome(dna_length_str')
              /\ ~IsIntegerText(Get(dna_length_str')))
            => /\ pc' = "panicked" /\ panic_msg' # ""
               /\ dna_length' = None /\ dna_sequence' = None /\ file' = file
               /\ k_str' = None /\ k' = None /\ kmers' = None
               /\ kmer_counts' = None /\ dbg' = None /\ graph' = None
               /\ attempted' = {} /\ stderr' = stderr
        /\ (pc = "prompt_k" /\ IsSome(k_str') /\ ~IsIntegerText(Get(k_str')))
            => /\ pc' = "panicked" /\ panic_msg' # ""
               /\ k' = None /\ kmers' = None
               /\ kmer_counts' = None /\ dbg' = None /\ graph' = None
               /\ attempted' = {} /\ stderr' = stderr /\ file' = file
        /\ pc # "panicked"
      ]_vars

C8_Witness ==
    /\ pc = "panicked"
    /\ IsSome(k_str) /\ ~IsIntegerText(Get(k_str)) /\ Get(k_str) # <<>>
    /\ IsSome(dna_sequence) /\ Get(dna_sequence) # <<>>

\* the strings that are a node key or an edge label of an adjacency graph
KeysAndLabels(m) == DOMAIN m \cup UNION {Range(m[p]) : p \in DOMAIN m}

\* the edges of g that run from the node weighted p to the node weighted c
EdgesBetween(g, p, c) ==
    {e \in DOMAIN g.edges :
        g.nodes[g.edges[e][1] + 1] = p /\ g.nodes[g.edges[e][2] + 1] = c}

\* C9: create_petgraph makes one graph node for every distinct string that
\* is a node key or an edge label, and one edge per (node key, edge label)
\* occurrence in the adjacency lists, so the edge count is the sum of the
\* adjacency-list lengths (multi-edges kept).
C9_MaterializedGraph ==
    IsSome(graph) =>
        LET g == Get(graph)
            m == Get(dbg)
        IN  /\ Range(g.nodes) = KeysAndLabels(m)
            /\ Len(g.nodes) = Cardinality(KeysAndLabels(m))
            /\ Len(g.edges) = SumLens(m)
            /\ \A e \in DOMAIN g.edges :
                  /\ g.edges[e][1] \in 0..(Len(g.nodes) - 1)
                  /\ g.edges[e][2] \in 0..(Len(g.nodes) - 1)
            /\ \A p \in DOMAIN m : \A c \in Range(m[p]) :
                  Cardinality(EdgesBetween(g, p, c)) = Occurrences(m[p], c)

C9_Witness ==
    /\ IsSome(graph)
    /\ \E p \in DOMAIN Get(dbg) :
          /\ \E c \in Range(Get(dbg)[p]) : Occurrences(Get(dbg)[p], c) >= 2
          /\ \E q \in DOMAIN Get(dbg) : q # p /\ q \in Range(Get(dbg)[p])

\* C10: whenever generate_kmers returns, its list is non-empty, so the
\* FrequencyMap that reaches plot_kmer_histogram has an entry and
\* max().unwrap() does not fail.
C10_HistogramMaxExists ==
    /\ IsSome(kmers) => Len(Get(kmers)) >= 1
    /\ IsSome(kmer_counts) => DOMAIN Get(kmer_counts) # {}
    /\ panic_msg # "called Option::unwrap() on a None value"

C10_Witness ==
    /\ pc = "display_counts"
    /\ ValidWindow /\ Get(k) = n
    /\ Len(Get(kmers)) = 1

====
